---- MODULE Spec2Model ----
(***************************************************************************)
(* Account REST service (service/routes.py).                               *)
(*                                                                         *)
(* State: the accounts table kept by the persistence layer and the last    *)
(* request / response exchanged with a client.  One action per route       *)
(* handler; every handler runs to completion within one step, as the       *)
(* service processes each request synchronously.                           *)
(***************************************************************************)
EXTENDS Integers, Sequences, FiniteSets, TLC

\* ------------------------------------------------------------------ bounds
\* Largest identifier the storage sequence hands out (bounds the number of
\* successful creates, hence the table size).
MaxId == 2

\* ------------------------------------------------------- request alphabet
JSON == "application/json"
NoHeader == ""
ContentTypes == {JSON, "test/html", NoHeader}

None == "None"

RequiredKeys == {"name", "email", "address"}
\* keys a client sends (date_joined is always left to its default)
PayloadKeys == {"id", "name", "email", "address", "phone_number"}

\* values a client may send under each key
ClientIds == {9}
KeyValues(k) ==
    CASE k = "name" -> {"n1"}
      [] k = "email" -> {"e1"}
      [] k = "address" -> {"a1"}
      [] k = "phone_number" -> {"p1"}

\* JSON objects: a dict over any subset of the keys
FieldPayloads ==
    UNION {{ f \in [K -> UNION {KeyValues(k) : k \in K}] :
                \A k \in K : f[k] \in KeyValues(k) } : K \in SUBSET (PayloadKeys \ {"id"})}
Payloads ==
    FieldPayloads \cup {("id" :> i) @@ f : i \in ClientIds, f \in FieldPayloads}

NoPayload == [k \in {} |-> None]

\* identifiers a client may put in the path
PathIds == 1..MaxId

VARIABLES
    store,      \* the accounts table: sequence of rows, in insertion order
    next_id,    \* the storage layer's identifier sequence
    req,        \* the request being answered: [op, id, ct, payload]
    resp,       \* its response: [status, kind, items]
    creates,    \* number of requests answered 201 so far
    deleted     \* identifiers removed by DELETE and not assigned again

vars == <<store, next_id, req, resp, creates, deleted>>

\* ------------------------------------------------------ persistence layer
\* date.today() and date.isoformat() on it
date_today == <<2026, 11, 1>>
date_isoformat(d) == IF d = <<2026, 11, 1>> THEN "2026-11-01" ELSE "0001-01-01"

\* Account(): a transient object with no identifier
Account == [id |-> 0, name |-> None, email |-> None, address |-> None,
            phone_number |-> None, date_joined |-> date_today]

\* Account.deserialize raises DataValidationError on a missing required key
deserialize_raises(data) == ~(RequiredKeys \subseteq DOMAIN data)

\* Account.deserialize: copies the fields of the dict, never the identifier;
\* an optional field the dict lacks is reset (None, today)
deserialize(account, data) ==
    [account EXCEPT
        !.name = data["name"],
        !.email = data["email"],
        !.address = data["address"],
        !.phone_number = IF "phone_number" \in DOMAIN data
                         THEN data["phone_number"] ELSE None,
        !.date_joined = date_today]

\* Account.serialize: the wire form of a row
serialize(account) ==
    [id |-> account.id, name |-> account.name, email |-> account.email,
     address |-> account.address, phone_number |-> account.phone_number,
     date_joined |-> date_isoformat(account.date_joined)]

\* Account.create: the storage layer assigns the identifier
create(account) == [account EXCEPT !.id = next_id]

\* Account.all
all == store

\* Account.find: position of the row with that identifier, 0 when absent
find(by_id) ==
    IF \E i \in 1..Len(store) : store[i].id = by_id
    THEN CHOOSE i \in 1..Len(store) : store[i].id = by_id
    ELSE 0

\* Account.delete: removes the row at position i
delete(i) == [j \in 1..(Len(store) - 1) |-> IF j < i THEN store[j] ELSE store[j + 1]]

Ids(s) == {s[i].id : i \in 1..Len(s)}
Rows(s) == {s[i] : i \in 1..Len(s)}

\* ------------------------------------------------------------- responses
Response(status, kind, items) == [status |-> status, kind |-> kind, items |-> items]

\* flask abort(code): the request ends with that status, nothing is committed
abort(code) ==
    /\ resp' = Response(code, "error", <<>>)
    /\ UNCHANGED <<store, next_id>>

\* ------------------------------------------------------------- utilities
\* variant: a request without the header is let through
check_content_type_absent_ok(content_type, media_type) ==
    content_type = NoHeader \/ content_type = media_type

check_content_type(content_type, media_type) ==
    content_type # NoHeader /\ content_type = media_type

\* --------------------------------------------------------------- handlers
\* variant: account.create() is left out
create_accounts_unsaved(content_type, payload) ==
    IF ~check_content_type(content_type, JSON) THEN abort(415)
    ELSE IF deserialize_raises(payload) THEN abort(400)
    ELSE LET account == deserialize(Account, payload)
         IN /\ resp' = Response(201, "object", <<serialize(account)>>)
            /\ UNCHANGED <<store, next_id>>

\* variant: the row is inserted before the body is validated
create_accounts_early_create(content_type, payload) ==
    IF ~check_content_type(content_type, JSON) THEN abort(415)
    ELSE IF deserialize_raises(payload)
         THEN /\ store' = Append(store, create(Account))
              /\ next_id' = next_id + 1
              /\ resp' = Response(400, "error", <<>>)
    ELSE LET account == create(deserialize(Account, payload))
         IN /\ store' = Append(store, account)
            /\ next_id' = next_id + 1
            /\ resp' = Response(201, "object", <<serialize(account)>>)

\* variant: an "id" in the body is kept as the record's identifier
create_accounts_client_id(content_type, payload) ==
    IF ~check_content_type(content_type, JSON) THEN abort(415)
    ELSE IF deserialize_raises(payload) THEN abort(400)
    ELSE LET saved == create(deserialize(Account, payload))
             account == IF "id" \in DOMAIN payload
                        THEN [saved EXCEPT !.id = payload["id"]] ELSE saved
         IN /\ store' = Append(store, account)
            /\ next_id' = next_id + 1
            /\ resp' = Response(201, "object", <<serialize(account)>>)

create_accounts(content_type, payload) ==
    IF ~check_content_type(content_type, JSON) THEN abort(415)
    ELSE IF deserialize_raises(payload) THEN abort(400)
    ELSE LET account == create(deserialize(Account, payload))
         IN /\ store' = Append(store, account)
            /\ next_id' = next_id + 1
            /\ resp' = Response(201, "object", <<serialize(account)>>)

\* variant: the emptiness test is inverted
list_accounts_inverted ==
    LET accounts == all
    IN /\ resp' = Response(200, "array",
                           IF accounts # <<>> THEN <<>>
                           ELSE [i \in 1..Len(accounts) |-> serialize(accounts[i])])
       /\ UNCHANGED <<store, next_id>>

list_accounts ==
    LET accounts == all
    IN /\ resp' = Response(200, "array",
                           IF accounts = <<>> THEN <<>>
                           ELSE [i \in 1..Len(accounts) |-> serialize(accounts[i])])
       /\ UNCHANGED <<store, next_id>>

\* variant: the not-found abort is left out
get_account_no_abort(account_id) ==
    LET account == find(account_id)
    IN /\ resp' = Response(200, "object",
                           IF account = 0 THEN <<>> ELSE <<serialize(store[account])>>)
       /\ UNCHANGED <<store, next_id>>

get_account(account_id) ==
    LET account == find(account_id)
    IN IF account = 0 THEN abort(404)
       ELSE /\ resp' = Response(200, "object", <<serialize(store[account])>>)
            /\ UNCHANGED <<store, next_id>>

\* variant: the changes are never written back
update_account_info_unsaved(account_id, content_type, payload) ==
    IF ~check_content_type(content_type, JSON) THEN abort(415)
    ELSE LET account == find(account_id)
         IN IF account = 0 THEN abort(404)
            ELSE IF "id" \in DOMAIN payload THEN abort(400)
            ELSE IF deserialize_raises(payload) THEN abort(400)
            ELSE LET updated == deserialize(store[account], payload)
                 IN /\ resp' = Response(200, "object", <<serialize(updated)>>)
                    /\ UNCHANGED <<store, next_id>>

\* variant: the test for "id" in the body is left out
update_account_info_no_id_check(account_id, content_type, payload) ==
    IF ~check_content_type(content_type, JSON) THEN abort(415)
    ELSE LET account == find(account_id)
         IN IF account = 0 THEN abort(404)
            ELSE IF deserialize_raises(payload) THEN abort(400)
            ELSE LET updated == deserialize(store[account], payload)
                 IN /\ store' = [store EXCEPT ![account] = updated]
                    /\ resp' = Response(200, "object", <<serialize(updated)>>)
                    /\ UNCHANGED next_id

update_account_info(account_id, content_type, payload) ==
    IF ~check_content_type(content_type, JSON) THEN abort(415)
    ELSE LET account == find(account_id)
         IN IF account = 0 THEN abort(404)
            ELSE IF "id" \in DOMAIN payload THEN abort(400)
            ELSE IF deserialize_raises(payload) THEN abort(400)
            ELSE LET updated == deserialize(store[account], payload)
                 IN /\ store' = [store EXCEPT ![account] = updated]
                    /\ resp' = Response(200, "object", <<serialize(updated)>>)
                    /\ UNCHANGED next_id

\* variant: account.delete() is left out
delete_account_unsaved(account_id) ==
    LET account == find(account_id)
    IN IF account = 0
       THEN /\ resp' = Response(200, "array", <<"detail: not found", "404">>)
            /\ UNCHANGED <<store, next_id>>
       ELSE /\ resp' = Response(204, "empty", <<>>)
            /\ UNCHANGED <<store, next_id>>

\* variant: the status is passed to make_response, not to jsonify
delete_account_strict(account_id) ==
    LET account == find(account_id)
    IN IF account = 0
       THEN /\ resp' = Response(404, "object", <<"detail: not found">>)
            /\ UNCHANGED <<store, next_id>>
       ELSE /\ store' = delete(account)
            /\ resp' = Response(204, "empty", <<>>)
            /\ UNCHANGED next_id

delete_account(account_id) ==
    LET account == find(account_id)
    IN IF account = 0
       THEN \* jsonify({"detail": "not found"}, 404): a two-element JSON
            \* array, sent with the default status
            /\ resp' = Response(200, "array", <<"detail: not found", "404">>)
            /\ UNCHANGED <<store, next_id>>
       ELSE /\ store' = delete(account)
            /\ resp' = Response(204, "empty", <<>>)
            /\ UNCHANGED next_id

\* --------------------------------------------------------------- requests
Request(op, id, ct, payload) == [op |-> op, id |-> id, ct |-> ct, payload |-> payload]

Bookkeeping ==
    /\ creates' = IF resp'.status = 201 THEN creates + 1 ELSE creates
    /\ deleted' = (IF req'.op = "DELETE" /\ req'.id \in Ids(store)
                   THEN deleted \cup {req'.id} ELSE deleted) \ Ids(store')

Post ==
    \E ct \in ContentTypes, p \in Payloads :
        /\ next_id <= MaxId
        /\ req' = Request("POST", 0, ct, p)
        /\ create_accounts(ct, p)
        /\ Bookkeeping

List ==
    /\ req' = Request("LIST", 0, NoHeader, NoPayload)
    /\ list_accounts
    /\ Bookkeeping

Get ==
    \E id \in PathIds :
        /\ req' = Request("GET", id, NoHeader, NoPayload)
        /\ get_account(id)
        /\ Bookkeeping

Put ==
    \E id \in PathIds, ct \in ContentTypes, p \in Payloads :
        /\ req' = Request("PUT", id, ct, p)
        /\ update_account_info(id, ct, p)
        /\ Bookkeeping

Delete ==
    \E id \in PathIds :
        /\ req' = Request("DELETE", id, NoHeader, NoPayload)
        /\ delete_account(id)
        /\ Bookkeeping

Init ==
    /\ store = <<>>
    /\ next_id = 1
    /\ req = Request("NONE", 0, NoHeader, NoPayload)
    /\ resp = Response(0, "none", <<>>)
    /\ creates = 0
    /\ deleted = {}

Next == Post \/ List \/ Get \/ Put \/ Delete

Spec == Init /\ [][Next]_vars

\* ------------------------------------------------------------- properties
\* the wire record j shows the fields of row r
SameFields(j, r) ==
    /\ j.id = r.id
    /\ j.name = r.name
    /\ j.email = r.email
    /\ j.address = r.address
    /\ j.phone_number = r.phone_number

\* the value a body carries for an optional key (null when it has none)
Sent(payload, k) == IF k \in DOMAIN payload THEN payload[k] ELSE None

ValidBody(payload) == RequiredKeys \subseteq DOMAIN payload
Distinct(s) == \A i, j \in 1..Len(s) : s[i].id = s[j].id => i = j

\* C1: a POST with Content-Type application/json and a body with name, email
\* and address is answered 201 with one record whose id was not in the store
\* before, whose name, email, address and phone_number are the body's, and the
\* store afterwards is the previous store plus exactly that record.
C1_CreateEchoesAndAdds ==
    [][(req'.op = "POST" /\ req'.ct = JSON /\ ValidBody(req'.payload)) =>
        /\ resp'.status = 201
        /\ Len(resp'.items) = 1
        /\ resp'.items[1].id \notin Ids(store)
        /\ resp'.items[1].name = req'.payload["name"]
        /\ resp'.items[1].email = req'.payload["email"]
        /\ resp'.items[1].address = req'.payload["address"]
        /\ resp'.items[1].phone_number = Sent(req'.payload, "phone_number")
        /\ Len(store') = Len(store) + 1
        /\ SubSeq(store', 1, Len(store)) = store
        /\ SameFields(resp'.items[1], store'[Len(store')])]_vars

C1_Witness ==
    /\ req.op = "POST" /\ req.ct = JSON /\ ValidBody(req.payload)
    /\ "phone_number" \in DOMAIN req.payload
    /\ resp.status = 201
    /\ Len(store) = 2

\* C2: GET /accounts is answered 200 with one entry per stored account, each
\* showing that account's fields: none on an empty store, and as many as there
\* were successful creates when nothing has been deleted; the store is unchanged.
C2_ListIsTheStore ==
    [][req'.op = "LIST" =>
        /\ resp'.status = 200
        /\ resp'.kind = "array"
        /\ Len(resp'.items) = Len(store)
        /\ \A i \in 1..Len(store) : SameFields(resp'.items[i], store[i])
        /\ (deleted = {} => Len(resp'.items) = creates)
        /\ store' = store]_vars

C2_Witness ==
    /\ req.op = "LIST"
    /\ deleted = {}
    /\ creates = 2
    /\ Len(resp.items) = 2

\* C3: GET /accounts/{id} is answered 404 when no stored record has that id and
\* 200 with the stored record of that id otherwise; the store is unchanged.
C3_GetByIdOr404 ==
    [][req'.op = "GET" =>
        /\ store' = store
        /\ (req'.id \notin Ids(store) => resp'.status = 404)
        /\ (req'.id \in Ids(store) =>
               /\ resp'.status = 200
               /\ Len(resp'.items) = 1
               /\ \E i \in 1..Len(store) :
                     store[i].id = req'.id /\ SameFields(resp'.items[1], store[i]))]_vars

C3_Witness ==
    /\ req.op = "GET"
    /\ resp.status = 200
    /\ resp.items[1].id = 2
    /\ Len(store) = 2

C3_WitnessMissing ==
    /\ req.op = "GET"
    /\ resp.status = 404
    /\ Len(store) = 1

\* C4: a PUT with Content-Type application/json, an id in the store and a body
\* with the required fields and no "id" is answered 200 with the updated record;
\* that record takes the body's values and keeps its id, every other record is
\* unchanged.
C4_UpdateOverwritesOneRecord ==
    [][(/\ req'.op = "PUT" /\ req'.ct = JSON /\ req'.id \in Ids(store)
        /\ ValidBody(req'.payload) /\ "id" \notin DOMAIN req'.payload) =>
        /\ resp'.status = 200
        /\ Len(resp'.items) = 1
        /\ Len(store') = Len(store)
        /\ \A i \in 1..Len(store) :
              IF store[i].id = req'.id
              THEN /\ store'[i].id = req'.id
                   /\ \A k \in DOMAIN req'.payload : store'[i][k] = req'.payload[k]
                   /\ SameFields(resp'.items[1], store'[i])
              ELSE store'[i] = store[i]]_vars

C4_Witness ==
    /\ req.op = "PUT"
    /\ resp.status = 200
    /\ "phone_number" \in DOMAIN req.payload
    /\ Len(store) = 2
    /\ \E i \in 1..2 : store[i].id # req.id /\ store[i].phone_number = None

\* C5: a DELETE of an id in the store is answered 204 with an empty body and
\* removes that record and no other; from then on a GET of that id is answered
\* 404 until a create assigns the id again.
C5_DeleteRemovesOneRecord ==
    /\ [](req.op = "GET" /\ req.id \in deleted => resp.status = 404)
    /\ [][(req'.op = "DELETE" /\ req'.id \in Ids(store)) =>
            /\ resp'.status = 204
            /\ resp'.kind = "empty"
            /\ resp'.items = <<>>
            /\ Len(store') = Len(store) - 1
            /\ Rows(store') = {r \in Rows(store) : r.id # req'.id}]_vars

C5_Witness ==
    /\ req.op = "GET"
    /\ req.id \in deleted
    /\ resp.status = 404
    /\ Len(store) = 1

\* C6 as stated: every PUT whose body has the key "id" is answered 400.
C6_Original ==
    (req.op = "PUT" /\ "id" \in DOMAIN req.payload) => resp.status = 400

\* C6: a PUT with Content-Type application/json, an id in the store and a body
\* with the key "id" is answered 400, whatever else the body holds, and the
\* store is unchanged.
C6_IdInBodyRejected ==
    [][(/\ req'.op = "PUT" /\ req'.ct = JSON /\ req'.id \in Ids(store)
        /\ "id" \in DOMAIN req'.payload) =>
        /\ resp'.status = 400
        /\ store' = store]_vars

C6_Witness ==
    /\ req.op = "PUT" /\ req.ct = JSON /\ req.id \in Ids(store)
    /\ "id" \in DOMAIN req.payload
    /\ ValidBody(req.payload)
    /\ resp.status = 400

\* C7: a POST or PUT whose Content-Type is absent or is not application/json is
\* answered 415 and the store is unchanged, whatever the body and, for PUT,
\* whether or not the id is in the store.
C7_WrongMediaType ==
    [][(req'.op \in {"POST", "PUT"} /\ req'.ct # JSON) =>
        /\ resp'.status = 415
        /\ store' = store]_vars

C7_Witness ==
    /\ req.op = "PUT" /\ req.ct = NoHeader
    /\ req.id \in Ids(store)
    /\ ValidBody(req.payload)
    /\ resp.status = 415

C7_WitnessPost ==
    /\ req.op = "POST" /\ req.ct = "test/html"
    /\ ValidBody(req.payload)
    /\ resp.status = 415

\* C8: a POST with Content-Type application/json and a body lacking name, email
\* or address is answered 400 and the store is unchanged.
C8_MissingFieldRejected ==
    [][(req'.op = "POST" /\ req'.ct = JSON /\ ~ValidBody(req'.payload)) =>
        /\ resp'.status = 400
        /\ store' = store
        /\ next_id' = next_id]_vars

C8_Witness ==
    /\ req.op = "POST" /\ req.ct = JSON
    /\ DOMAIN req.payload = {"name"}
    /\ resp.status = 400
    /\ Len(store) = 1

\* C9: every DELETE is answered with a 2xx status, never 404; on an id that is
\* not in the store it changes nothing, and after any DELETE the id is not in
\* the store, so a second DELETE of the same id ends in the same store.
C9_DeleteIdempotent ==
    [][req'.op = "DELETE" =>
        /\ resp'.status \in 200..299
        /\ req'.id \notin Ids(store')
        /\ (req'.id \notin Ids(store) => store' = store)]_vars

C9_Witness ==
    /\ req.op = "DELETE"
    /\ req.id \in deleted
    /\ resp.status = 200
    /\ Len(store) = 1

\* C10: the ids in the store are pairwise distinct and each was handed out by
\* the storage sequence (an "id" in a POST body never becomes the record's id);
\* no request changes the id of a record that stays in the store.
C10_IdsServerControlled ==
    /\ [](Distinct(store) /\ Ids(store) \subseteq 1..(next_id - 1))
    /\ [][/\ req'.op = "POST" =>
                /\ \A i \in 1..Len(store) : store'[i].id = store[i].id
                /\ Ids(store') \subseteq Ids(store) \cup {next_id}
          /\ req'.op \in {"LIST", "GET", "PUT"} =>
                /\ Len(store') = Len(store)
                /\ \A i \in 1..Len(store) : store'[i].id = store[i].id
          /\ req'.op = "DELETE" => Rows(store') \subseteq Rows(store)]_vars

C10_Witness ==
    /\ req.op = "POST"
    /\ "id" \in DOMAIN req.payload
    /\ resp.status = 201
    /\ resp.items[1].id # req.payload["id"]
    /\ Len(store) = 2

====
